---- MODULE Spec2Model ----
(***************************************************************************)
(* envdiff: works out the environment changes made by sourcing a script   *)
(* and prints them as shell (export/unset) or GNU Modules directives.      *)
(*                                                                         *)
(* Strings are sequences of one-character strings, so that formatting,     *)
(* splitting, sorting and shell expansion are computed, not assumed.       *)
(* Python's None is the integer -1 for an index, and absence from the      *)
(* DOMAIN for a dictionary entry.                                          *)
(***************************************************************************)
EXTENDS Integers, Sequences, FiniteSets, TLC

\* ------------------------------------------------------------------ bounds

\* longest environment value of the single-variable specification
MaxLen == 4
\* number of variables of the document specification
MaxDocKeys == 2
\* longest command line (after the program name) of the argument specification
MaxArgs == 2
\* longest list handed to the sublist search specification
MaxSeq == 3
\* longest environment value of the argument specification
MaxArgvLen == 1

\* ----------------------------------------------------------------- strings

\* characters of the values: the delimiter and a path character
Alphabet == {":", "/"}

\* code points of every character a directive line can hold
Code(c) ==
  CASE c = " " -> 32 [] c = "#" -> 35 [] c = "$" -> 36 [] c = "-" -> 45
    [] c = "/" -> 47 [] c = "1" -> 49 [] c = ":" -> 58 [] c = "=" -> 61
    [] c = "A" -> 65 [] c = "B" -> 66 [] c = "K" -> 75 [] c = "_" -> 95
    [] c = "a" -> 97 [] c = "d" -> 100 [] c = "e" -> 101 [] c = "h" -> 104
    [] c = "n" -> 110 [] c = "o" -> 111 [] c = "p" -> 112 [] c = "r" -> 114
    [] c = "s" -> 115 [] c = "t" -> 116 [] c = "u" -> 117 [] c = "v" -> 118
    [] c = "x" -> 120

RECURSIVE LexLessFrom(_, _, _)
LexLessFrom(s, t, i) ==
  IF i > Len(s) THEN i <= Len(t)
  ELSE IF i > Len(t) THEN FALSE
  ELSE IF s[i] = t[i] THEN LexLessFrom(s, t, i + 1)
  ELSE Code(s[i]) < Code(t[i])

\* Python's s < t on strings: lexicographic on code points
LexLess(s, t) == LexLessFrom(s, t, 1)

\* Python's a[lo:hi] for 0 <= lo, hi <= len(a)
Slice(a, lo, hi) == IF hi <= lo THEN <<>> ELSE SubSeq(a, lo + 1, hi)

RECURSIVE Join(_, _)
\* sep.join(tokens)
Join(tokens, sep) ==
  IF tokens = <<>> THEN <<>>
  ELSE IF Len(tokens) = 1 THEN tokens[1]
  ELSE tokens[1] \o sep \o Join(Tail(tokens), sep)

\* str.strip() of a token: whitespace is the blank
IsBlank(c) == c = " "

RECURSIVE Strip(_)
Strip(s) ==
  IF s = <<>> THEN s
  ELSE IF IsBlank(s[1]) THEN Strip(Tail(s))
  ELSE IF IsBlank(s[Len(s)]) THEN Strip(SubSeq(s, 1, Len(s) - 1))
  ELSE s

\* ---------------------------------------------------------- list heuristic

\* re_list_splitter matches at position i: a colon not followed by //
re_list_splitter(s, i) ==
  /\ s[i] = ":"
  /\ ~(i + 2 <= Len(s) /\ s[i + 1] = "/" /\ s[i + 2] = "/")

is_bash_listlike(entry) ==
  \E i \in 1..Len(entry) : re_list_splitter(entry, i)

RECURSIVE SplitFrom(_, _, _, _)
SplitFrom(s, i, cur, acc) ==
  IF i > Len(s) THEN Append(acc, cur)
  ELSE IF re_list_splitter(s, i) THEN SplitFrom(s, i + 1, <<>>, Append(acc, cur))
  ELSE SplitFrom(s, i + 1, Append(cur, s[i]), acc)

\* re_list_splitter.split(s): the empty string gives one empty token
Split(s) == SplitFrom(s, 1, <<>>, <<>>)

RECURSIVE IndexFromMissLast(_, _, _)
IndexFromMissLast(a, b, i) ==
  IF i >= Len(a) - Len(b) THEN -1
  ELSE IF Slice(a, i, i + Len(b)) = b THEN i
  ELSE IndexFromMissLast(a, b, i + 1)

\* the search with range(len(a)-len(b)): the last position is never tried
index_of_sublist_short(a, b) ==
  IF Len(a) < Len(b) THEN -1 ELSE IndexFromMissLast(a, b, 0)

RECURSIVE IndexFromLast(_, _, _)
IndexFromLast(a, b, i) ==
  IF i < 0 THEN -1
  ELSE IF Slice(a, i, i + Len(b)) = b THEN i
  ELSE IndexFromLast(a, b, i - 1)

\* the search scanning from the right: the last occurrence wins
index_of_sublist_last(a, b) ==
  IF Len(a) < Len(b) THEN -1 ELSE IndexFromLast(a, b, Len(a) - Len(b))

RECURSIVE IndexFrom(_, _, _)
\* the for loop of index_of_sublist from position i on
IndexFrom(a, b, i) ==
  IF i > Len(a) - Len(b) THEN -1
  ELSE IF Slice(a, i, i + Len(b)) = b THEN i
  ELSE IndexFrom(a, b, i + 1)

\* the index of b in a, or -1 for None
index_of_sublist(a, b) ==
  IF Len(a) < Len(b) THEN -1 ELSE IndexFrom(a, b, 0)

contains_sublist(a, b) == index_of_sublist(a, b) # -1

\* ------------------------------------------------------- output formatters

S_export == <<"e", "x", "p", "o", "r", "t", " ">>
S_unset == <<"u", "n", "s", "e", "t", " ">>
S_setenv == <<"s", "e", "t", "e", "n", "v", " ">>
S_unsetenv == <<"u", "n", "s", "e", "t", "e", "n", "v", " ">>
S_prepend == <<"p", "r", "e", "p", "e", "n", "d", "-", "p", "a", "t", "h", " ">>
S_append == <<"a", "p", "p", "e", "n", "d", "-", "p", "a", "t", "h", " ", " ">>
S_comment == <<" ", "#", " ">>

\* OutputCategories(): the raw output, grouped into category. An entry is the
\* line text; the key it was rendered for rides along for the properties.
OutputCategories ==
  [added |-> <<>>, replaced |-> <<>>, removed |-> <<>>, listchange |-> <<>>,
   assumed_listchange |-> <<>>, unhandled |-> <<>>]

Entry(key, line) == [key |-> key, line |-> line]

BashFormatter_add(out, key, value) ==
  [out EXCEPT !.added = Append(@, Entry(key, S_export \o key \o <<"=">> \o value))]

BashFormatter_replace(out, key, value) ==
  [out EXCEPT !.replaced = Append(@, Entry(key, S_export \o key \o <<"=">> \o value))]

BashFormatter_unhandled(out, key, value, comment) ==
  LET base == S_export \o key \o <<"=">> \o value
      line == IF comment # <<>> THEN base \o S_comment \o comment ELSE base
  IN [out EXCEPT !.unhandled = Append(@, Entry(key, line))]

BashFormatter_remove(out, key) ==
  [out EXCEPT !.removed = Append(@, Entry(key, S_unset \o key))]

\* the expansion written out without the reference to the variable itself
BashFormatter_expand_list_literal(out, key, prefix, postfix, assumed) ==
  LET line == S_export \o key \o <<"=">> \o Join(prefix \o postfix, <<":">>)
  IN IF assumed
     THEN [out EXCEPT !.assumed_listchange = Append(@, Entry(key, line))]
     ELSE [out EXCEPT !.listchange = Append(@, Entry(key, line))]

BashFormatter_expand_list(out, key, prefix, postfix, assumed) ==
  LET line == S_export \o key \o <<"=">>
                \o Join(prefix \o << <<"$">> \o key >> \o postfix, <<":">>)
  IN IF assumed
     THEN [out EXCEPT !.assumed_listchange = Append(@, Entry(key, line))]
     ELSE [out EXCEPT !.listchange = Append(@, Entry(key, line))]

GNUModulesFormatter_add(out, key, value) ==
  [out EXCEPT !.added = Append(@, Entry(key, S_setenv \o key \o <<" ">> \o value))]

GNUModulesFormatter_replace(out, key, value) ==
  [out EXCEPT !.replaced = Append(@, Entry(key, S_setenv \o key \o <<" ">> \o value))]

GNUModulesFormatter_unhandled(out, key, value, comment) ==
  LET base == S_setenv \o key \o <<" ">> \o value
      line == IF comment # <<>> THEN base \o S_comment \o comment ELSE base
  IN [out EXCEPT !.unhandled = Append(@, Entry(key, line))]

GNUModulesFormatter_remove(out, key) ==
  [out EXCEPT !.removed = Append(@, Entry(key, S_unsetenv \o key))]

GNUModulesFormatter_expand_list(out, key, prefix, postfix, assumed) ==
  LET \* Don't support single-item empty prefix/postfix
      pre == IF Len(prefix) = 1 /\ Strip(prefix[1]) = <<>> THEN <<>> ELSE prefix
      post == IF Len(postfix) = 1 /\ Strip(postfix[1]) = <<>> THEN <<>> ELSE postfix
      l1 == IF pre # <<>>
            THEN << Entry(key, S_prepend \o key \o <<" ">> \o Join(pre, <<":">>)) >>
            ELSE <<>>
      l2 == IF post # <<>>
            THEN << Entry(key, S_append \o key \o <<" ">> \o Join(post, <<":">>)) >>
            ELSE <<>>
  IN IF assumed
     THEN [out EXCEPT !.assumed_listchange = @ \o l1 \o l2]
     ELSE [out EXCEPT !.listchange = @ \o l1 \o l2]

\* the formatter object's methods, by class
Fmt_add(cls, out, key, value) ==
  IF cls = "BashFormatter" THEN BashFormatter_add(out, key, value)
  ELSE GNUModulesFormatter_add(out, key, value)

Fmt_replace(cls, out, key, value) ==
  IF cls = "BashFormatter" THEN BashFormatter_replace(out, key, value)
  ELSE GNUModulesFormatter_replace(out, key, value)

Fmt_unhandled(cls, out, key, value, comment) ==
  IF cls = "BashFormatter" THEN BashFormatter_unhandled(out, key, value, comment)
  ELSE GNUModulesFormatter_unhandled(out, key, value, comment)

Fmt_remove(cls, out, key) ==
  IF cls = "BashFormatter" THEN BashFormatter_remove(out, key)
  ELSE GNUModulesFormatter_remove(out, key)

Fmt_expand_list(cls, out, key, prefix, postfix, assumed) ==
  IF cls = "BashFormatter"
  THEN BashFormatter_expand_list(out, key, prefix, postfix, assumed)
  ELSE GNUModulesFormatter_expand_list(out, key, prefix, postfix, assumed)

RECURSIVE Insert(_, _)
\* e put into the sorted entries es, ordered by line text
Insert(e, es) ==
  IF es = <<>> THEN <<e>>
  ELSE IF LexLess(es[1].line, e.line) THEN <<es[1]>> \o Insert(e, Tail(es))
  ELSE <<e>> \o es

\* the entries left as they were appended
sorted_unsorted(es) == es

RECURSIVE sorted(_)
\* sorted(list of lines): ascending by the text of the line
sorted(es) == IF es = <<>> THEN <<>> ELSE Insert(es[1], sorted(Tail(es)))

\* one element of the document: a header, a directive line or the blank line
Header(cat, text) == [kind |-> "header", cat |-> cat, text |-> text]
Line(cat, e) == [kind |-> "line", cat |-> cat, key |-> e.key, line |-> e.line]
Blank(cat) == [kind |-> "blank", cat |-> cat]

Lines(cat, es) == [i \in 1..Len(es) |-> Line(cat, es[i])]
Hashed(es) == [i \in 1..Len(es) |-> Entry(es[i].key, es[i].line \o <<"#">>)]

Section(cat, es, text) ==
  IF es # <<>> THEN <<Header(cat, text)>> \o Lines(cat, sorted(es)) \o <<Blank(cat)>>
  ELSE <<>>

\* dump(): the same in both formatter classes. The document is the sequence of
\* its lines (the text joined by newlines).
dump(out) ==
     Section("added", out.added, "# Variables added")
  \o Section("replaced", out.replaced,
             "# Variables replaced - these had a value before that changed")
  \o Section("removed", out.removed, "# Variables deleted/unset")
  \o Section("listchange", out.listchange, "# Lists prefixed/appended to")
  \o Section("assumed_listchange", out.assumed_listchange,
             "# Variables created - but looked like a list; assuming prefix operation")
  \o (IF out.unhandled # <<>>
      THEN <<Header("unhandled",
                    "# WARNING: The following were unhandled/unknown/too complex")>>
           \o Lines("unhandled", Hashed(sorted(out.unhandled)))
           \o <<Blank("unhandled")>>
      ELSE <<>>)

\* ------------------------------------------------------------ command line

RECURSIVE RemoveFirst(_, _)
\* list.remove(x): the first occurrence goes
RemoveFirst(s, x) ==
  IF s = <<>> THEN s
  ELSE IF s[1] = x THEN Tail(s)
  ELSE <<s[1]>> \o RemoveFirst(Tail(s), x)

In(x, s) == \E i \in 1..Len(s) : s[i] = x

\* one print(): the text, and the variable it names if any
Printed(text, key) == [msg |-> text, key |-> key]
Msg(text) == Printed(text, <<>>)

DefaultOptions ==
  [bash |-> TRUE, modules |-> FALSE, warn_empty |-> FALSE, script |-> "", arg |-> <<>>]

\* sys.exit(1 if len(filtered_argv) == 1 else 0)
usage_exit_code(filtered_argv) == IF Len(filtered_argv) = 1 THEN 1 ELSE 0

\* process_argv(__doc__): exit = -1 when it returns the options
process_argv(av) ==
  LET f0 == Tail(av)
      conflict == In("--bash", f0) /\ In("--modules", f0)
      f1 == IF In("--bash", f0) THEN RemoveFirst(f0, "--bash") ELSE f0
      o1 == IF In("--bash", f0) THEN [DefaultOptions EXCEPT !.bash = TRUE]
            ELSE DefaultOptions
      f2 == IF In("--modules", f1) THEN RemoveFirst(f1, "--modules") ELSE f1
      o2 == IF In("--modules", f1) THEN [o1 EXCEPT !.bash = FALSE, !.modules = TRUE]
            ELSE o1
      f3 == IF In("--warn-empty", f2) THEN RemoveFirst(f2, "--warn-empty") ELSE f2
      o3 == IF In("--warn-empty", f2) THEN [o2 EXCEPT !.warn_empty = TRUE] ELSE o2
  IN IF conflict
     THEN [exit |-> 1, out |-> <<Msg("Error: Can not specify both --bash and --modules")>>,
           options |-> DefaultOptions]
     ELSE IF In("-h", av) \/ In("--help", f3) \/ f3 = <<>>
     THEN [exit |-> usage_exit_code(f3), out |-> <<Msg("usage")>>, options |-> o3]
     ELSE [exit |-> -1, out |-> <<>>,
           options |-> [o3 EXCEPT !.script = f3[1], !.arg = Tail(f3)]]

\* -------------------------------------------------------------------- state

VARIABLES
  pc,            \* where main() is
  argv,          \* sys.argv
  os_environ,    \* os.environ when the program starts
  script,        \* what sourcing the script gives: [ok, env]
  options,       \* the options process_argv returned
  exit_code,     \* -1 while running, then the process's exit status
  stdout,        \* what was printed, in order
  start_env, sourced_env,
  start_keys, sourced_keys, added_keys, changed_keys, replaced_keys,
  formatter,     \* the class of the formatter object
  output,        \* formatter._output
  todo,          \* the keys the running for loop has still to visit
  calls,         \* the formatter calls made so far, with their arguments
  document,      \* what formatter.dump() returned
  hay, needle, found  \* a call of index_of_sublist and its result

vars == <<pc, argv, os_environ, script, options, exit_code, stdout, start_env,
          sourced_env, start_keys, sourced_keys, added_keys, changed_keys,
          replaced_keys, formatter, output, todo, calls, document,
          hay, needle, found>>

mainVars == <<pc, argv, os_environ, script, options, exit_code, stdout, start_env,
              sourced_env, start_keys, sourced_keys, added_keys, changed_keys,
              replaced_keys, formatter, output, todo, calls, document>>

\* variable names
K == <<"K">>
KeyA == <<"A">>
KeyA1 == <<"A", "1">>
KeyB == <<"B">>
Underscore == <<"_">>

\* Keys to ignore - e.g. things that normally change in any sourced script
IGNORE == {<<"S", "H", "L", "V", "L">>, Underscore, <<"O", "L", "D", "P", "W", "D">>}

NoEnv == [k \in {} |-> <<>>]

\* dict.get(key, "")
Get(env, key) == IF key \in DOMAIN env THEN env[key] ELSE <<>>

\* the dictionary without the keys of drop
Without(env, drop) == [k \in (DOMAIN env) \ drop |-> env[k]]

\* the dictionary with key set to value
With(env, key, value) ==
  [k \in (DOMAIN env) \cup {key} |-> IF k = key THEN value ELSE env[k]]

\* ------------------------------------------------------------------- inputs

\* every string of at most n characters
Strings(n) == UNION {[1..m -> Alphabet] : m \in 0..n}

\* every environment over a subset of keys with values among vals
Envs(keys, vals) == UNION {[D -> vals] : D \in SUBSET keys}

ArgTokens == {"--bash", "--modules", "--warn-empty", "-h", "--help", "script.sh"}

Prog == "envdiff.py"

\* every command line of at most n arguments
Argvs(n) == UNION {{<<Prog>> \o a : a \in [1..m -> ArgTokens]} : m \in 0..n}

\* the command lines of the environment specifications
MainArgvs ==
  {<<Prog, "script.sh">>, <<Prog, "--modules", "script.sh">>, <<Prog, "-h">>,
   <<Prog, "--bash", "--modules">>}

InitRest ==
  /\ pc = "start"
  /\ options = DefaultOptions
  /\ exit_code = -1
  /\ stdout = <<>>
  /\ start_env = NoEnv /\ sourced_env = NoEnv
  /\ start_keys = {} /\ sourced_keys = {}
  /\ added_keys = {} /\ changed_keys = {} /\ replaced_keys = {}
  /\ formatter = "none"
  /\ output = OutputCategories
  /\ todo = {}
  /\ calls = {}
  /\ document = <<>>

NoSearch == hay = <<>> /\ needle = <<>> /\ found = -2

\* one variable K with any two values, with or without an ignored variable
Init ==
  /\ argv \in MainArgvs
  /\ \E e1 \in Envs({K}, Strings(MaxLen)), e2 \in Envs({K}, Strings(MaxLen)),
        ig \in BOOLEAN, ok \in BOOLEAN :
       /\ os_environ = IF ig THEN With(e1, Underscore, <<"/">>) ELSE e1
       /\ script = IF ok
                   THEN [ok |-> TRUE,
                         env |-> IF ig THEN With(e2, Underscore, <<"/", "/">>) ELSE e2]
                   ELSE [ok |-> FALSE, env |-> NoEnv]
  /\ InitRest
  /\ NoSearch

\* ------------------------------------------------------------------ actions

\* options = process_argv(__doc__)
ProcessArgv ==
  /\ pc = "start"
  /\ LET r == process_argv(argv)
     IN /\ stdout' = stdout \o r.out
        /\ IF r.exit >= 0
           THEN /\ pc' = "exited"
                /\ exit_code' = r.exit
                /\ UNCHANGED options
           ELSE /\ pc' = "capture"
                /\ options' = r.options
                /\ UNCHANGED exit_code
  /\ UNCHANGED <<argv, os_environ, script, start_env, sourced_env, start_keys,
                 sourced_keys, added_keys, changed_keys, replaced_keys, formatter,
                 output, todo, calls, document, hay, needle, found>>

\* start_env = dict(os.environ); the script is sourced and its environment read
Capture ==
  /\ pc = "capture"
  /\ script.ok
  /\ start_env' = os_environ
  /\ sourced_env' = script.env
  /\ pc' = "ignore"
  /\ UNCHANGED <<argv, os_environ, script, options, exit_code, stdout, start_keys,
                 sourced_keys, added_keys, changed_keys, replaced_keys, formatter,
                 output, todo, calls, document, hay, needle, found>>

\* subprocess.CalledProcessError: the script returned a non-zero status
CaptureFailed ==
  /\ pc = "capture"
  /\ ~script.ok
  /\ start_env' = os_environ
  /\ stdout' = Append(stdout, Msg("Error loading script: Returned non-zero status code."))
  /\ exit_code' = 1
  /\ pc' = "exited"
  /\ UNCHANGED <<argv, os_environ, script, options, sourced_env, start_keys,
                 sourced_keys, added_keys, changed_keys, replaced_keys, formatter,
                 output, todo, calls, document, hay, needle, found>>

\* for key in IGNORE: del sourced_env[key]; del start_env[key]
StripIgnore ==
  /\ pc = "ignore"
  /\ sourced_env' = Without(sourced_env, IGNORE)
  /\ start_env' = Without(start_env, IGNORE)
  /\ pc' = "diff"
  /\ UNCHANGED <<argv, os_environ, script, options, exit_code, stdout, start_keys,
                 sourced_keys, added_keys, changed_keys, replaced_keys, formatter,
                 output, todo, calls, document, hay, needle, found>>

\* the key sets, and the formatting class for output
DiffKeys ==
  /\ pc = "diff"
  /\ start_keys' = DOMAIN start_env
  /\ sourced_keys' = DOMAIN sourced_env
  /\ added_keys' = (DOMAIN sourced_env) \ (DOMAIN start_env)
  /\ changed_keys' = {x \in (DOMAIN start_env) \cap (DOMAIN sourced_env) :
                        start_env[x] # sourced_env[x]}
  /\ formatter' = IF options.bash THEN "BashFormatter"
                  ELSE IF options.modules THEN "GNUModulesFormatter"
                  ELSE formatter
  /\ pc' = "listlike"
  /\ UNCHANGED <<argv, os_environ, script, options, exit_code, stdout, start_env,
                 sourced_env, replaced_keys, output, todo, calls, document,
                 hay, needle, found>>

\* ------------------------------------------------------- the loops of main

PhaseSeq == <<"nonlist", "remove", "add", "replace", "changed">>

RECURSIVE Enter(_, _)
\* the first loop from the i-th on that has keys to visit, else the dump
Enter(i, sets) ==
  IF i > Len(PhaseSeq) THEN [pc |-> "dump", todo |-> {}]
  ELSE IF sets[i] # {} THEN [pc |-> PhaseSeq[i], todo |-> sets[i]]
  ELSE Enter(i + 1, sets)

\* one call of a formatter method, with its arguments
Call(op, key, value, comment, prefix, postfix, assumed) ==
  [op |-> op, key |-> key, value |-> value, comment |-> comment,
   prefix |-> prefix, postfix |-> postfix, assumed |-> assumed]

\* not (is_bash_listlike(start_env.get(key, "")) or is_bash_listlike(sourced_env[key]))
neither_listlike(senv, tenv, key) ==
  ~(is_bash_listlike(Get(senv, key)) \/ is_bash_listlike(tenv[key]))

\* the test that never takes a changed key for one that was empty
was_empty_never(senv, key) == FALSE

\* start_env.get(key) == ""
was_empty(senv, key) == key \in DOMAIN senv /\ senv[key] = <<>>

\* Treat an empty start as an explicitly empty list
start_list(senv, key) ==
  IF key \in DOMAIN senv /\ senv[key] # <<>> THEN Split(Get(senv, key)) ELSE <<>>

\* the suffix taken one token too early
suffix_of_early(end, ind, start) == Slice(end, ind + Len(start) - 1, Len(end))

\* suffix = end[ind+len(start):]
suffix_of(end, ind, start) == Slice(end, ind + Len(start), Len(end))

\* the body of the loop over changed_keys: the formatter call it makes
list_change(senv, tenv, key) ==
  LET start == start_list(senv, key)
      end == Split(tenv[key])
      ind == index_of_sublist(end, start)
  IN IF start = <<>>
     THEN Call("expand_list", key, <<>>, <<>>, end, <<>>, TRUE)
     ELSE IF ~contains_sublist(end, start)
     THEN Call("unhandled", key, tenv[key], <<>>, <<>>, <<>>, FALSE)
     ELSE Call("expand_list", key, <<>>, <<>>, Slice(end, 0, ind),
               suffix_of(end, ind, start), FALSE)

\* Look for added keys that are listlike - pretend these are changes
ListlikeAdded ==
  /\ pc = "listlike"
  /\ LET changelike == {x \in added_keys : is_bash_listlike(sourced_env[x])}
         e == Enter(1, <<changed_keys \cup changelike, start_keys \ sourced_keys,
                         added_keys \ changelike, {}, changed_keys \cup changelike>>)
     IN /\ changed_keys' = changed_keys \cup changelike
        /\ added_keys' = added_keys \ changelike
        /\ replaced_keys' = {}
        /\ pc' = e.pc
        /\ todo' = e.todo
  /\ UNCHANGED <<argv, os_environ, script, options, exit_code, stdout, start_env,
                 sourced_env, start_keys, sourced_keys, formatter, output, calls,
                 document, hay, needle, found>>

\* Keys that changed, but are not listlike, are treated separately: one pass
\* of the loop over list(changed_keys)
NonListChanged ==
  /\ pc = "nonlist"
  /\ \E key \in todo :
       LET nonlist == neither_listlike(start_env, sourced_env, key)
           empty == was_empty(start_env, key)
           chg == IF nonlist THEN changed_keys \ {key} ELSE changed_keys
           add == IF nonlist /\ empty THEN added_keys \cup {key} ELSE added_keys
           rep == IF nonlist /\ ~empty THEN replaced_keys \cup {key} ELSE replaced_keys
           rest == todo \ {key}
           e == IF rest # {} THEN [pc |-> "nonlist", todo |-> rest]
                ELSE Enter(2, <<{}, start_keys \ sourced_keys, add, rep, chg>>)
       IN /\ changed_keys' = chg
          /\ added_keys' = add
          /\ replaced_keys' = rep
          /\ stdout' = IF nonlist /\ empty /\ options.warn_empty
                       THEN Append(stdout, Printed("Warning: variable was replaced, but was originally empty. Emitting as add operation", key))
                       ELSE stdout
          /\ pc' = e.pc
          /\ todo' = e.todo
  /\ UNCHANGED <<argv, os_environ, script, options, exit_code, start_env,
                 sourced_env, start_keys, sourced_keys, formatter, output, calls,
                 document, hay, needle, found>>

\* the pass of a formatter loop is over: the next loop with keys to visit
AfterPass(phase, rest) ==
  IF rest # {} THEN [pc |-> PhaseSeq[phase], todo |-> rest]
  ELSE Enter(phase + 1, <<{}, start_keys \ sourced_keys, added_keys,
                          replaced_keys, changed_keys>>)

LoopUnchanged ==
  UNCHANGED <<argv, os_environ, script, options, exit_code, stdout, start_env,
              sourced_env, start_keys, sourced_keys, added_keys, changed_keys,
              replaced_keys, formatter, document, hay, needle, found>>

\* for key in start_keys - sourced_keys: formatter.remove(key)
RemovePass ==
  /\ pc = "remove"
  /\ \E key \in todo :
       /\ output' = Fmt_remove(formatter, output, key)
       /\ calls' = calls \cup {Call("remove", key, <<>>, <<>>, <<>>, <<>>, FALSE)}
       /\ pc' = AfterPass(2, todo \ {key}).pc
       /\ todo' = AfterPass(2, todo \ {key}).todo
  /\ LoopUnchanged

\* for key in added_keys: formatter.add(key, sourced_env[key])
AddPass ==
  /\ pc = "add"
  /\ \E key \in todo :
       /\ output' = Fmt_add(formatter, output, key, sourced_env[key])
       /\ calls' = calls \cup {Call("add", key, sourced_env[key], <<>>, <<>>, <<>>, FALSE)}
       /\ pc' = AfterPass(3, todo \ {key}).pc
       /\ todo' = AfterPass(3, todo \ {key}).todo
  /\ LoopUnchanged

\* for key in replaced_keys: formatter.replace(key, sourced_env[key])
ReplacePass ==
  /\ pc = "replace"
  /\ \E key \in todo :
       /\ output' = Fmt_replace(formatter, output, key, sourced_env[key])
       /\ calls' = calls \cup {Call("replace", key, sourced_env[key], <<>>, <<>>, <<>>, FALSE)}
       /\ pc' = AfterPass(4, todo \ {key}).pc
       /\ todo' = AfterPass(4, todo \ {key}).todo
  /\ LoopUnchanged

\* for key in changed_keys: the keys that are lists or look like one
ChangedPass ==
  /\ pc = "changed"
  /\ \E key \in todo :
       LET c == list_change(start_env, sourced_env, key)
       IN /\ output' = IF c.op = "unhandled"
                       THEN Fmt_unhandled(formatter, output, key, c.value, c.comment)
                       ELSE Fmt_expand_list(formatter, output, key, c.prefix,
                                            c.postfix, c.assumed)
          /\ calls' = calls \cup {c}
          /\ pc' = AfterPass(5, todo \ {key}).pc
          /\ todo' = AfterPass(5, todo \ {key}).todo
  /\ LoopUnchanged

\* print(formatter.dump()), and main() returns
Dump ==
  /\ pc = "dump"
  /\ document' = dump(output)
  /\ stdout' = Append(stdout, Msg("document"))
  /\ exit_code' = 0
  /\ pc' = "done"
  /\ UNCHANGED <<argv, os_environ, script, options, start_env, sourced_env,
                 start_keys, sourced_keys, added_keys, changed_keys, replaced_keys,
                 formatter, output, todo, calls, hay, needle, found>>

\* found = index_of_sublist(hay, needle)
Search ==
  /\ found = -2
  /\ found' = index_of_sublist(hay, needle)
  /\ UNCHANGED <<hay, needle>>
  /\ UNCHANGED mainVars

Next ==
  \/ ProcessArgv \/ Capture \/ CaptureFailed \/ StripIgnore \/ DiffKeys
  \/ ListlikeAdded \/ NonListChanged \/ RemovePass \/ AddPass \/ ReplacePass
  \/ ChangedPass \/ Dump

\* one variable, every pair of values
Spec == Init /\ [][Next]_vars

\* a variable before and after the script: <<>> for unset, <<v>> for the value v
DocChanges ==
  {[before |-> <<>>, after |-> << <<"/">> >>],
   [before |-> << <<>> >>, after |-> << <<"/">> >>],
   [before |-> << <<"/">> >>, after |-> << <<"/", "/">> >>],
   [before |-> << <<"/">> >>, after |-> <<>>],
   [before |-> << <<"/">> >>, after |-> << <<"/", "/", ":", "/">> >>],
   [before |-> << <<"/", "/">> >>, after |-> << <<"/", "/", ":", "/">> >>],
   [before |-> << <<"/">> >>, after |-> << <<":", "/">> >>],
   [before |-> <<>>, after |-> << <<"/", ":", "/">> >>],
   [before |-> << <<"/", ":", "/">> >>, after |-> << <<"/">> >>],
   [before |-> << <<"/">> >>, after |-> << <<"/">> >>]}

DocKeyList == <<KeyA, KeyA1, KeyB>>

DocKeys ==
  {DocKeyList[i] : i \in 1..(IF MaxDocKeys < Len(DocKeyList) THEN MaxDocKeys
                             ELSE Len(DocKeyList))}

\* the environment a choice of changes starts from (side = "before") or ends in
EnvOf(ch, side) ==
  LET val(k) == IF side = "before" THEN ch[k].before ELSE ch[k].after
  IN [k \in {x \in DOMAIN ch : val(x) # <<>>} |-> val(k)[1]]

\* several variables, each with one of the changes of DocChanges
InitDoc ==
  /\ argv \in MainArgvs
  /\ \E ch \in [DocKeys -> DocChanges], ok \in BOOLEAN :
       /\ os_environ = EnvOf(ch, "before")
       /\ script = IF ok THEN [ok |-> TRUE, env |-> EnvOf(ch, "after")]
                   ELSE [ok |-> FALSE, env |-> NoEnv]
  /\ InitRest
  /\ NoSearch

SpecDoc == InitDoc /\ [][Next]_vars

\* every command line, one variable with short values
InitArgv ==
  /\ argv \in Argvs(MaxArgs)
  /\ \E e1 \in Envs({K}, Strings(MaxArgvLen)), e2 \in Envs({K}, Strings(MaxArgvLen)),
        ok \in BOOLEAN :
       /\ os_environ = e1
       /\ script = IF ok THEN [ok |-> TRUE, env |-> e2]
                   ELSE [ok |-> FALSE, env |-> NoEnv]
  /\ InitRest
  /\ NoSearch

SpecArgv == InitArgv /\ [][Next]_vars

SeqItems == {"x", "y"}

Seqs(n) == UNION {[1..m -> SeqItems] : m \in 0..n}

\* index_of_sublist on every pair of short lists
InitSearch ==
  /\ hay \in Seqs(MaxSeq)
  /\ needle \in Seqs(MaxSeq)
  /\ found = -2
  /\ argv = <<Prog>>
  /\ os_environ = NoEnv
  /\ script = [ok |-> FALSE, env |-> NoEnv]
  /\ InitRest

NextSearch == Search

SpecSearch == InitSearch /\ [][NextSearch]_vars

\* ------------------------------------------------- what the properties use

Done == pc = "done"

Before == os_environ
After == script.env

\* the variables the comparison covers
Compared == ((DOMAIN Before) \cup (DOMAIN After)) \ IGNORE

\* the compared variables set before and after
InBoth == ((DOMAIN Before) \cap (DOMAIN After)) \ IGNORE

\* added, removed, or present in both with differing values
Differs(k) ==
  \/ k \in (DOMAIN Before) \ (DOMAIN After)
  \/ k \in (DOMAIN After) \ (DOMAIN Before)
  \/ k \in (DOMAIN Before) \cap (DOMAIN After) /\ Before[k] # After[k]

Categories ==
  <<"added", "replaced", "removed", "listchange", "assumed_listchange", "unhandled">>

CatIndex(c) == CHOOSE i \in 1..Len(Categories) : Categories[i] = c

\* how many entries of a category were rendered for key k
Records(c, k) == Cardinality({i \in 1..Len(output[c]) : output[c][i].key = k})

RECURSIVE SumRecords(_, _)
SumRecords(i, k) ==
  IF i > Len(Categories) THEN 0 ELSE Records(Categories[i], k) + SumRecords(i + 1, k)

CategoriesOf(k) == {i \in 1..Len(Categories) : Records(Categories[i], k) > 0}

CallsFor(k) == {c \in calls : c.key = k}

\* ---- the shell the directives are written for

IsNameChar(c) == c \in {"A", "B", "K", "_", "1"}

RECURSIVE NameEnd(_, _)
\* the last position of the variable name that starts at i
NameEnd(w, i) == IF i <= Len(w) /\ IsNameChar(w[i]) THEN NameEnd(w, i + 1) ELSE i - 1

RECURSIVE Expand(_, _, _)
\* the word from position i on, with each $NAME replaced by the variable's value
\* (empty when unset); the word ends at a blank
Expand(w, i, env) ==
  IF i > Len(w) \/ IsBlank(w[i]) THEN <<>>
  ELSE IF w[i] = "$" /\ NameEnd(w, i + 1) > i
  THEN Get(env, SubSeq(w, i + 1, NameEnd(w, i + 1))) \o Expand(w, NameEnd(w, i + 1) + 1, env)
  ELSE <<w[i]>> \o Expand(w, i + 1, env)

StartsWith(s, pre) == Len(s) >= Len(pre) /\ SubSeq(s, 1, Len(pre)) = pre

\* the environment after one directive line of the shell dialect
ShLine(line, env) ==
  IF StartsWith(line, S_unset)
  THEN Without(env, {SubSeq(line, Len(S_unset) + 1, Len(line))})
  ELSE IF StartsWith(line, S_export)
  THEN LET rest == SubSeq(line, Len(S_export) + 1, Len(line))
           eq == CHOOSE i \in 1..Len(rest) :
                   rest[i] = "=" /\ \A j \in 1..(i - 1) : rest[j] # "="
       IN With(env, SubSeq(rest, 1, eq - 1), Expand(rest, eq + 1, env))
  ELSE env

RECURSIVE ShEvalFrom(_, _, _)
ShEvalFrom(doc, i, env) ==
  IF i > Len(doc) THEN env
  ELSE IF doc[i].kind = "line" THEN ShEvalFrom(doc, i + 1, ShLine(doc[i].line, env))
  ELSE ShEvalFrom(doc, i + 1, env)

\* the environment after evaluating the document in env
ShEval(doc, env) == ShEvalFrom(doc, 1, env)

\* two environments agree on variable k
SameAt(e1, e2, k) ==
  /\ (k \in DOMAIN e1) = (k \in DOMAIN e2)
  /\ k \in DOMAIN e1 => e1[k] = e2[k]

RECURSIVE NaiveSplitFrom(_, _, _, _)
NaiveSplitFrom(s, i, cur, acc) ==
  IF i > Len(s) THEN Append(acc, cur)
  ELSE IF s[i] = ":" THEN NaiveSplitFrom(s, i + 1, <<>>, Append(acc, cur))
  ELSE NaiveSplitFrom(s, i + 1, Append(cur, s[i]), acc)

\* the token list whose delimiter-join is s: a token wherever a colon stands
Tokens(s) == NaiveSplitFrom(s, 1, <<>>, <<>>)

\* b stands in a at index i (from 0)
OccursAt(a, b, i) ==
  /\ 0 <= i /\ i + Len(b) <= Len(a)
  /\ \A j \in 1..Len(b) : a[i + j] = b[j]

\* ------------------------------------------------------------------- claims

\* C1 (as claimed): in both dialects every differing, non-ignored key ends up
\* in exactly one category with at least one rendered record, ignored and
\* unchanged keys in none, and N differing keys yield exactly N records.
C1_Partition ==
  Done =>
    /\ \A k \in (DOMAIN Before) \cup (DOMAIN After) :
         IF k \notin IGNORE /\ Differs(k)
         THEN Cardinality(CategoriesOf(k)) = 1 /\ SumRecords(1, k) >= 1
         ELSE SumRecords(1, k) = 0
    /\ \A k \in Compared : Differs(k) => SumRecords(1, k) = 1

IsBash == formatter = "BashFormatter"

\* the environment after evaluating the emitted directives once, and twice
Replayed == ShEval(document, Before)
ReplayedTwice == ShEval(document, Replayed)

\* C2 (as claimed): evaluating the shell-dialect directives in the before
\* environment gives the after environment on every non-ignored key, keys
\* classified assumed-list-expanded included.
C2_ReplayReproduces ==
  Done /\ IsBash => \A k \in Compared : SameAt(Replayed, After, k)

\* how often the token list b stands in the token list a
Occurrences(a, b) == {i \in 0..Len(a) : OccursAt(a, b, i)}

\* C3 (as claimed): whenever the after value is the join of P + B + S for the
\* non-empty token list B of the before value, the key is list-expanded with
\* prefix exactly P and suffix exactly S, whatever P and S hold.
C3_RoundTripAnySplit ==
  Done =>
    \A k \in InBoth :
      Before[k] # After[k] =>
        LET B == Tokens(Before[k])
            T == Tokens(After[k])
        IN \A i \in Occurrences(T, B) :
             Call("expand_list", k, <<>>, <<>>, Slice(T, 0, i),
                  Slice(T, i + Len(B), Len(T)), FALSE) \in calls

\* C3 (amended): for a non-empty before value, with both token lists taken by
\* the program's split, an after list that holds the before list is
\* list-expanded, and the prefix and suffix are the tokens around the first
\* occurrence of the before list: they are P and S exactly when no occurrence
\* starts before P ends.
C3_RoundTripFirstOccurrence ==
  Done =>
    \A k \in InBoth :
      Before[k] # After[k] /\ Before[k] # <<>> =>
        LET B == Split(Before[k])
            E == Split(After[k])
        IN \A i \in Occurrences(E, B) :
             (\A j \in Occurrences(E, B) : i <= j) =>
               CallsFor(k) = {Call("expand_list", k, <<>>, <<>>, Slice(E, 0, i),
                                   Slice(E, i + Len(B), Len(E)), FALSE)}

\* C3's case: the before list stands in the after list more than once, and the
\* key was list-expanded
C3_Witness ==
  /\ Done
  /\ K \in (DOMAIN Before) \cap (DOMAIN After)
  /\ Before[K] # <<>>
  /\ Cardinality(Occurrences(Split(After[K]), Split(Before[K]))) >= 2
  /\ \E c \in CallsFor(K) : c.op = "expand_list" /\ ~c.assumed /\ c.postfix # <<>>

\* C4 (as claimed): a changed list key whose non-empty before tokens are no
\* contiguous sublist of its after tokens is unhandled, and its record carries
\* the raw after value with a non-empty diagnostic comment.
C4_UnhandledWithComment ==
  Done =>
    \A k \in InBoth :
      /\ Before[k] # After[k]
      /\ Before[k] # <<>>
      /\ is_bash_listlike(Before[k]) \/ is_bash_listlike(After[k])
      /\ Occurrences(Split(After[k]), Split(Before[k])) = {}
      => \E c \in CallsFor(k) :
           c.op = "unhandled" /\ c.value = After[k] /\ c.comment # <<>>

\* C5: the search returns the lowest index at which the needle stands in the
\* haystack, and None (-1) exactly when it stands nowhere; the empty needle is
\* found at 0 in every haystack, a longer needle never.
C5_LowestIndex ==
  found # -2 =>
    /\ found = -1 <=> Occurrences(hay, needle) = {}
    /\ found # -1 =>
         /\ found \in Occurrences(hay, needle)
         /\ \A j \in Occurrences(hay, needle) : found <= j
    /\ needle = <<>> => found = 0
    /\ Len(needle) > Len(hay) => found = -1
    /\ contains_sublist(hay, needle) <=> Occurrences(hay, needle) # {}

\* C5's case: the empty needle searched in the empty haystack
C5_Witness == found = 0 /\ hay = <<>> /\ needle = <<>>

\* the positions of the document's directive lines
LinePositions == {i \in 1..Len(document) : document[i].kind = "line"}

\* sections only for the non-empty categories, each a header, the category's
\* lines and a blank line, in the fixed order of the categories
SectionsInOrder ==
  /\ \A i, j \in 1..Len(document) :
       i < j => CatIndex(document[i].cat) <= CatIndex(document[j].cat)
  /\ \A n \in 1..Len(Categories) :
       LET c == Categories[n]
           at == {i \in 1..Len(document) : document[i].cat = c}
       IN IF output[c] = <<>> THEN at = {}
          ELSE /\ Cardinality(at) = Len(output[c]) + 2
               /\ \A i \in at :
                    document[i].kind =
                      (IF \A j \in at : i <= j THEN "header"
                       ELSE IF \A j \in at : j <= i THEN "blank" ELSE "line")

ListKeys ==
  {output.listchange[i].key : i \in 1..Len(output.listchange)}
    \cup {output.assumed_listchange[i].key : i \in 1..Len(output.assumed_listchange)}

\* C7 (as claimed): evaluating the shell directives twice from the before
\* environment leaves what evaluating them once leaves, list expansions
\* included.
C7_Idempotent ==
  Done /\ IsBash =>
    \A k \in (DOMAIN Replayed) \cup (DOMAIN ReplayedTwice) :
      SameAt(Replayed, ReplayedTwice, k)

\* C7 (amended): a second evaluation changes no variable but those rendered
\* as list expansions, and each of those it changes, the prefix and suffix
\* being added again.
C7_IdempotentButLists ==
  Done /\ IsBash =>
    \A k \in (DOMAIN Replayed) \cup (DOMAIN ReplayedTwice) :
      SameAt(Replayed, ReplayedTwice, k) <=> k \notin ListKeys

\* C7's case: a key rendered as a list expansion, and one evaluated twice
C7_Witness ==
  /\ Done /\ IsBash
  /\ output.listchange # <<>>
  /\ ~SameAt(Replayed, ReplayedTwice, K)

\* the command line asks for help; names no script; names both dialects
HelpRequested == In("-h", Tail(argv)) \/ In("--help", Tail(argv))
BothDialects == In("--bash", Tail(argv)) /\ In("--modules", Tail(argv))
NoArguments ==
  \A i \in 2..Len(argv) : argv[i] \in {"--bash", "--modules", "--warn-empty"}
UsagePrinted == \E i \in 1..Len(stdout) : stdout[i] = Msg("usage")

\* C8 (as claimed): a help request prints the usage and exits 0; no script
\* argument prints the usage and exits 1; both dialects exit 1 before any
\* capture.
C8_ExitCodes ==
  pc # "start" =>
    /\ HelpRequested /\ ~BothDialects => UsagePrinted /\ exit_code = 0
    /\ NoArguments /\ ~BothDialects => UsagePrinted /\ exit_code = 1
    /\ BothDialects => exit_code = 1 /\ start_env = NoEnv /\ sourced_env = NoEnv

\* C9: a key of the after mapping whose before value is absent or empty is
\* added when its after value is not list-like, and assumed-list-expanded with
\* all after tokens as prefix and no suffix when it is; a changed key with a
\* non-empty before value and no list-like value is replaced.
C9_FromNothing ==
  Done =>
    \A k \in (DOMAIN After) \ IGNORE :
      /\ Get(Before, k) = <<>> /\ (k \in DOMAIN Before => After[k] # <<>>)
         => IF is_bash_listlike(After[k])
            THEN /\ CallsFor(k) = {Call("expand_list", k, <<>>, <<>>,
                                        Split(After[k]), <<>>, TRUE)}
                 /\ CategoriesOf(k) = {CatIndex("assumed_listchange")}
            ELSE /\ CallsFor(k) = {Call("add", k, After[k], <<>>, <<>>, <<>>, FALSE)}
                 /\ CategoriesOf(k) = {CatIndex("added")}
      /\ /\ k \in DOMAIN Before /\ Before[k] # <<>> /\ Before[k] # After[k]
         /\ ~is_bash_listlike(Before[k]) /\ ~is_bash_listlike(After[k])
         => /\ CallsFor(k) = {Call("replace", k, After[k], <<>>, <<>>, <<>>, FALSE)}
            /\ CategoriesOf(k) = {CatIndex("replaced")}

\* C9's case: a variable that was set but empty, given a value that is no list
C9_Witness ==
  /\ Done
  /\ K \in DOMAIN Before /\ Before[K] = <<>>
  /\ \E c \in CallsFor(K) : c.op = "add"

\* C10: for a list-expanded key the before value is non-empty and
\* prefix ++ before tokens ++ suffix are the after tokens, so the prefix and
\* the suffix are never both empty.
C10_ExpansionSplit ==
  \A c \in calls :
    c.op = "expand_list" /\ ~c.assumed =>
      /\ c.key \in InBoth
      /\ Before[c.key] # <<>>
      /\ Split(Before[c.key]) # <<>>
      /\ c.prefix \o Split(Before[c.key]) \o c.postfix = Split(After[c.key])
      /\ ~(c.prefix = <<>> /\ c.postfix = <<>>)

\* C10's case: a list expansion with tokens before and after the old list
C10_Witness ==
  \E c \in calls :
    c.op = "expand_list" /\ ~c.assumed /\ c.prefix # <<>> /\ c.postfix # <<>>

====
